---------------------------- MODULE Spec2Model ----------------------------
(***************************************************************************)
(* Model of inventory.py: a dynamic inventory adapter that reads host rows *)
(* from the `server_inventory` table and reshapes them into the Ansible    *)
(* inventory document, or inserts a new host row.                          *)
(*                                                                         *)
(* One behaviour of the model is one invocation of the script.  Strings    *)
(* are sequences of one-character strings, a Python dict is the sequence   *)
(* of its <<key, value>> items in insertion order, and a nullable value    *)
(* (a NULL column, an argparse default of None) is a sequence of length    *)
(* zero (None) or one (the value).                                         *)
(***************************************************************************)
EXTENDS Integers, Sequences, FiniteSets, TLC

VARIABLES
    table,      \* committed rows of `server_inventory`
    table0,     \* the table as it was when the process started
    pending,    \* rows inserted on the connection and not yet committed
    conn,       \* the pymysql connection: "none", "open", "closed"
    queries,    \* the statements sent to the store, in order
    args,       \* the argparse namespace
    pc,         \* position of the process in main()
    host_list,  \* rows returned by get_hosts()
    hosts,      \* Host objects built by process_hosts()
    groups,     \* main: the group mapping
    hostvars,   \* main: the hostvars mapping
    fields,     \* add_host: column names of the INSERT
    values,     \* add_host: column values of the INSERT
    stdout,     \* what was printed, in order
    stderr,     \* uncaught exceptions reported by the interpreter
    raised,     \* the last exception a call raised, if any
    exit_code   \* process exit status, NoExit while running

vars == <<table, table0, pending, conn, queries, args, pc, host_list, hosts,
          groups, hostvars, fields, values, stdout, stderr, raised, exit_code>>

-----------------------------------------------------------------------------
(* Bounds of the model *)

MaxHosts == 2

NoExit == 0 - 1

-----------------------------------------------------------------------------
(* Strings *)

None == <<>>
Some(v) == <<v>>
IsNone(x) == x = <<>>
Val(x) == x[1]

\* Python truthiness of an optional string: neither None nor ''.
Truthy(x) == Len(x) = 1 /\ Len(x[1]) > 0

Digits == <<"0", "1", "2", "3", "4", "5", "6", "7", "8", "9">>
HexDigits == <<"0", "1", "2", "3", "4", "5", "6", "7", "8", "9",
               "a", "b", "c", "d", "e", "f">>

\* Code points of the characters the model uses.
Ord(c) ==
    CASE c = " " -> 32 [] c = "," -> 44 [] c = "-" -> 45
      [] c = "." -> 46
      [] c = "0" -> 48 [] c = "1" -> 49 [] c = "2" -> 50 [] c = "3" -> 51
      [] c = "4" -> 52 [] c = "5" -> 53 [] c = "6" -> 54 [] c = "7" -> 55
      [] c = "8" -> 56 [] c = "9" -> 57 [] c = ":" -> 58
      [] c = "A" -> 65 [] c = "B" -> 66 [] c = "C" -> 67 [] c = "D" -> 68
      [] c = "E" -> 69 [] c = "F" -> 70 [] c = "W" -> 87 [] c = "_" -> 95
      [] c = "a" -> 97 [] c = "b" -> 98 [] c = "c" -> 99 [] c = "d" -> 100
      [] c = "e" -> 101 [] c = "f" -> 102 [] c = "g" -> 103 [] c = "h" -> 104
      [] c = "i" -> 105 [] c = "l" -> 108 [] c = "m" -> 109 [] c = "n" -> 110
      [] c = "o" -> 111 [] c = "p" -> 112 [] c = "q" -> 113 [] c = "r" -> 114
      [] c = "s" -> 115 [] c = "t" -> 116 [] c = "u" -> 117 [] c = "w" -> 119
      [] c = "x" -> 120 [] c = "z" -> 122

\* str < str: lexicographic on code points.
RECURSIVE StrLess(_, _)
StrLess(s, t) ==
    IF Len(t) = 0 THEN FALSE
    ELSE IF Len(s) = 0 THEN TRUE
    ELSE IF s[1] = t[1] THEN StrLess(Tail(s), Tail(t))
    ELSE Ord(s[1]) < Ord(t[1])

\* Variant: the match ignores case (both sides lower-cased first).
FoldCase(c) ==
    CASE c = "A" -> "a" [] c = "B" -> "b" [] c = "C" -> "c" [] c = "D" -> "d"
      [] c = "E" -> "e" [] c = "F" -> "f" [] c = "W" -> "w" [] OTHER -> c
startswith_nocase(s, prefix) ==
    /\ Len(prefix) <= Len(s)
    /\ \A i \in 1..Len(prefix) : FoldCase(s[i]) = FoldCase(prefix[i])

\* str.startswith(prefix)
startswith(s, prefix) ==
    /\ Len(prefix) <= Len(s)
    /\ SubSeq(s, 1, Len(prefix)) = prefix

\* str.split(sep) for a one-character separator
RECURSIVE split(_, _)
split(s, sep) ==
    IF \A i \in 1..Len(s) : s[i] # sep THEN <<s>>
    ELSE LET i == CHOOSE k \in 1..Len(s) :
                      s[k] = sep /\ \A j \in 1..(k - 1) : s[j] # sep
         IN  <<SubSeq(s, 1, i - 1)>> \o split(SubSeq(s, i + 1, Len(s)), sep)

\* sep.join(parts)
RECURSIVE join(_, _)
join(sep, parts) ==
    IF Len(parts) = 0 THEN <<>>
    ELSE IF Len(parts) = 1 THEN parts[1]
    ELSE parts[1] \o sep \o join(sep, Tail(parts))

\* sorted(list of str): ascending, by insertion
RECURSIVE SortInsert(_, _)
SortInsert(x, sorted) ==
    IF Len(sorted) = 0 THEN <<x>>
    ELSE IF StrLess(x, sorted[1]) THEN <<x>> \o sorted
    ELSE <<sorted[1]>> \o SortInsert(x, Tail(sorted))

RECURSIVE Sorted(_)
Sorted(list) ==
    IF Len(list) = 0 THEN <<>>
    ELSE SortInsert(list[Len(list)], Sorted(SubSeq(list, 1, Len(list) - 1)))

-----------------------------------------------------------------------------
(* Python dict: the sequence of its items, keys unique, in insertion order *)

DictHas(d, k) == \E i \in 1..Len(d) : d[i][1] = k
DictIndex(d, k) == CHOOSE i \in 1..Len(d) : d[i][1] = k
DictGet(d, k) == d[DictIndex(d, k)][2]
\* d[k] = v: an existing key keeps its position, a new key goes last
DictSet(d, k, v) ==
    IF DictHas(d, k) THEN [d EXCEPT ![DictIndex(d, k)] = <<k, v>>]
    ELSE Append(d, <<k, v>>)
DictKeys(d) == [i \in 1..Len(d) |-> d[i][1]]


-----------------------------------------------------------------------------
(* ipaddress.ip_address, for the textual forms the model feeds it:         *)
(* dotted-quad IPv4 and hexadecimal IPv6 with at most one `::`.  An        *)
(* address object is [version, parts], parts being the octets or hextets.  *)

IndexOf(seq, c) == CHOOSE i \in 1..Len(seq) : seq[i] = c
IsDigit(c) == \E i \in 1..Len(Digits) : Digits[i] = c
DigitVal(c) == IndexOf(Digits, c) - 1

Lower(c) ==
    CASE c = "A" -> "a" [] c = "B" -> "b" [] c = "C" -> "c"
      [] c = "D" -> "d" [] c = "E" -> "e" [] c = "F" -> "f"
      [] OTHER -> c
IsHexDigit(c) == \E i \in 1..Len(HexDigits) : HexDigits[i] = Lower(c)
HexVal(c) == IndexOf(HexDigits, Lower(c)) - 1

RECURSIVE DecValue(_)
DecValue(s) ==
    IF Len(s) = 0 THEN 0
    ELSE 10 * DecValue(SubSeq(s, 1, Len(s) - 1)) + DigitVal(s[Len(s)])

RECURSIVE HexValue(_)
HexValue(s) ==
    IF Len(s) = 0 THEN 0
    ELSE 16 * HexValue(SubSeq(s, 1, Len(s) - 1)) + HexVal(s[Len(s)])

\* str(int) for a non-negative integer
RECURSIVE DecStr(_)
DecStr(n) ==
    IF n < 10 THEN <<Digits[n + 1]>>
    ELSE Append(DecStr(n \div 10), Digits[(n % 10) + 1])

\* '%0<width>d' % n
RECURSIVE ZeroPad(_, _)
ZeroPad(s, width) == IF Len(s) >= width THEN s ELSE ZeroPad(<<"0">> \o s, width)

\* '%04x' % n
Hex4(n) ==
    <<HexDigits[(n \div 4096) + 1], HexDigits[((n \div 256) % 16) + 1],
      HexDigits[((n \div 16) % 16) + 1], HexDigits[(n % 16) + 1]>>

IsOctet(o) ==
    /\ Len(o) \in 1..3
    /\ \A i \in 1..Len(o) : IsDigit(o[i])
    /\ (Len(o) > 1 => o[1] # "0")
    /\ DecValue(o) <= 255

IsIPv4(s) ==
    LET octets == split(s, ".")
    IN  Len(octets) = 4 /\ \A i \in 1..4 : IsOctet(octets[i])

IsHextet(h) == Len(h) \in 1..4 /\ \A i \in 1..Len(h) : IsHexDigit(h[i])

\* Indices (1-based) of the empty parts strictly inside the list.
InnerEmpty(parts) == {i \in 2..(Len(parts) - 1) : Len(parts[i]) = 0}

V6Hi(parts) ==
    IF InnerEmpty(parts) = {} THEN 8
    ELSE LET skip == CHOOSE i \in InnerEmpty(parts) : TRUE
         IN  IF Len(parts[1]) = 0 THEN skip - 2 ELSE skip - 1

V6Lo(parts) ==
    IF InnerEmpty(parts) = {} THEN 0
    ELSE LET skip == CHOOSE i \in InnerEmpty(parts) : TRUE
             lo == Len(parts) - skip
         IN  IF Len(parts[Len(parts)]) = 0 THEN lo - 1 ELSE lo

IsIPv6(s) ==
    LET parts == split(s, ":")
        n == Len(parts)
    IN  /\ n >= 3
        /\ n <= 9
        /\ Cardinality(InnerEmpty(parts)) <= 1
        /\ IF InnerEmpty(parts) = {}
           THEN n = 8 /\ Len(parts[1]) > 0 /\ Len(parts[n]) > 0
           ELSE /\ (Len(parts[1]) = 0 => V6Hi(parts) = 0)
                /\ (Len(parts[n]) = 0 => V6Lo(parts) = 0)
                /\ 8 - (V6Hi(parts) + V6Lo(parts)) >= 1
        /\ \A i \in 1..V6Hi(parts) : IsHextet(parts[i])
        /\ \A i \in (n - V6Lo(parts) + 1)..n : IsHextet(parts[i])

\* ip_address(s) raises ValueError exactly when this is FALSE.
IsIPAddress(s) == IsIPv4(s) \/ IsIPv6(s)

ip_address(s) ==
    IF IsIPv4(s)
    THEN [version |-> 4,
          parts |-> [i \in 1..4 |-> DecValue(split(s, ".")[i])]]
    ELSE LET parts == split(s, ":")
             n == Len(parts)
             hi == V6Hi(parts)
             lo == V6Lo(parts)
         IN  [version |-> 6,
              parts |-> [i \in 1..8 |->
                            IF i <= hi THEN HexValue(parts[i])
                            ELSE IF i > 8 - lo THEN HexValue(parts[n - (8 - i)])
                            ELSE 0]]

\* IPv4Address.exploded / IPv6Address.exploded
exploded(ip) ==
    IF ip.version = 4
    THEN join(<<".">>, [i \in 1..4 |-> DecStr(ip.parts[i])])
    ELSE join(<<":">>, [i \in 1..8 |-> Hex4(ip.parts[i])])

\* datetime.strftime('%Y-%d-%m %H:%M:%S'); a timestamp is <<Y, m, d, H, M, S>>
strftime(upd) ==
    ZeroPad(DecStr(upd[1]), 4) \o <<"-">> \o ZeroPad(DecStr(upd[3]), 2)
      \o <<"-">> \o ZeroPad(DecStr(upd[2]), 2) \o <<" ">>
      \o ZeroPad(DecStr(upd[4]), 2) \o <<":">> \o ZeroPad(DecStr(upd[5]), 2)
      \o <<":">> \o ZeroPad(DecStr(upd[6]), 2)

-----------------------------------------------------------------------------
(* Host normalizer and inventory builder *)

\* Host.__init__ raises (ValueError from ip_address) exactly when this is FALSE.
HostValid(row) == IsIPAddress(row.ipaddr)

\* Variant: only NULL gives the empty list, '' is split like any string.
Host_splitempty(row) ==
    [id |-> row.id,
     fqdn |-> row.fqdn,
     upd |-> row.upd,
     enabled |-> (row.enabled # 0),
     ipaddr |-> ip_address(row.ipaddr),
     groups |-> IF ~IsNone(row.groups) THEN split(Val(row.groups), ",") ELSE <<>>,
     features |-> IF Truthy(row.features) THEN split(Val(row.features), ",") ELSE <<>>,
     label |-> IF Truthy(row.label) THEN Val(row.label) ELSE <<>>]

\* Host.__init__
Host(row) ==
    [id |-> row.id,
     fqdn |-> row.fqdn,
     upd |-> row.upd,
     enabled |-> (row.enabled # 0),
     ipaddr |-> ip_address(row.ipaddr),
     groups |-> IF Truthy(row.groups) THEN split(Val(row.groups), ",") ELSE <<>>,
     features |-> IF Truthy(row.features) THEN split(Val(row.features), ",") ELSE <<>>,
     label |-> IF Truthy(row.label) THEN Val(row.label) ELSE <<>>]

process_hosts(rows) == [i \in 1..Len(rows) |-> Host(rows[i])]

\* One iteration of build_hostvars' loop: the host's attributes without fqdn.
host_dict(host) ==
    [id |-> host.id,
     upd |-> strftime(host.upd),
     enabled |-> host.enabled,
     ipaddr |-> exploded(host.ipaddr),
     groups |-> host.groups,
     features |-> host.features,
     label |-> host.label]

RECURSIVE HostvarsLoop(_, _)
HostvarsLoop(hv, hs) ==
    IF Len(hs) = 0 THEN hv
    ELSE HostvarsLoop(DictSet(hv, hs[1].fqdn, host_dict(hs[1])), Tail(hs))

build_hostvars(hs) == HostvarsLoop(<<>>, hs)

\* Variant: the member list is kept sorted instead of appended to.
GroupAppend_sorted(gs, group, fqdn) ==
    LET g1 == IF ~DictHas(gs, group)
              THEN DictSet(gs, group, [hosts |-> <<>>])
              ELSE gs
    IN  DictSet(g1, group, [hosts |-> SortInsert(fqdn, DictGet(g1, group).hosts)])

\* Body of build_groups' inner loop for one group name of one host.
GroupAppend(gs, group, fqdn) ==
    LET g1 == IF ~DictHas(gs, group)
              THEN DictSet(gs, group, [hosts |-> <<>>])
              ELSE gs
    IN  DictSet(g1, group, [hosts |-> Append(DictGet(g1, group).hosts, fqdn)])

RECURSIVE HostGroupsLoop(_, _, _)
HostGroupsLoop(gs, fqdn, names) ==
    IF Len(names) = 0 THEN gs
    ELSE HostGroupsLoop(GroupAppend(gs, names[1], fqdn), fqdn, Tail(names))

RECURSIVE GroupsLoop(_, _)
GroupsLoop(gs, hs) ==
    IF Len(hs) = 0 THEN gs
    ELSE GroupsLoop(HostGroupsLoop(gs, hs[1].fqdn, hs[1].groups), Tail(hs))

build_groups(hs) == GroupsLoop(<<>>, hs)

META == <<"_", "m", "e", "t", "a">>

\* Variant: no copy, the document is the caller's `groups` object itself.
build_ansible_inventory_nocopy(gs, hv) ==
    [inventory |-> DictSet(gs, META, [hostvars |-> hv]),
     groups |-> DictSet(gs, META, [hostvars |-> hv])]

\* build_ansible_inventory: the returned document, and the caller's `groups`
\* object as the call leaves it (the document is built on a copy).
build_ansible_inventory(gs, hv) ==
    [inventory |-> DictSet(gs, META, [hostvars |-> hv]),
     groups |-> gs]

\* dump(): a dict is printed as one JSON document, a list or a key view as
\* its sorted elements, one per line.
dump_dict(data) == [kind |-> "json", data |-> data]
dump_list(data) == [kind |-> "lines", data |-> Sorted(data)]


-----------------------------------------------------------------------------
(* Inputs: the stored tables and the command lines the model explores *)

W1 == <<"w", "1">>
W2 == <<"w", "2">>
D1 == <<"d", "1">>
Fqdns == {W1, W2, D1}

IpV4 == <<"1", "0", ".", "0", ".", "0", ".", "1">>
IpV6 == <<":", ":", "1">>
IpBad == <<"1", "0", ".", "0", ".", "1">>

GroupA == <<"a">>
GroupB == <<"b">>
GroupStrings ==
    {None, Some(<<>>), Some(GroupA), Some(<<"a", ",", "a">>), Some(META),
     Some(<<"a", ",">>)}

Stamp == <<2021, 3, 9, 7, 5, 0>>

\* What a stored row can hold besides its key: a well-formed row with any of
\* the group encodings, an IPv6 row with every optional column set, and a row
\* whose ipaddr is no address literal.
RowKinds ==
    {[ipaddr |-> IpV4, enabled |-> 1, features |-> None, label |-> None,
      groups |-> g] : g \in GroupStrings}
    \cup {[ipaddr |-> IpV6, enabled |-> 0,
           features |-> Some(<<"f", ",", "g">>), label |-> Some(<<"l">>),
           groups |-> Some(<<"b", ",", "a">>)]}
    \cup {[ipaddr |-> IpBad, enabled |-> 1, features |-> None, label |-> None,
           groups |-> Some(GroupA)]}

PlainKinds ==
    {[ipaddr |-> IpV4, enabled |-> 1, features |-> None, label |-> None,
      groups |-> None]}

MkRow(id, fqdn, k) ==
    [id |-> id, fqdn |-> fqdn, enabled |-> k.enabled, features |-> k.features,
     ipaddr |-> k.ipaddr, label |-> k.label, groups |-> k.groups, upd |-> Stamp]

\* Tables of n rows; fqdn is a unique key of the table, id counts the rows.
TablesOfLen(n, kinds) ==
    {[i \in 1..n |-> MkRow(i, f[i][1], f[i][2])] :
        f \in {g \in [1..n -> Fqdns \X kinds] :
                  \A i, j \in 1..n : i # j => g[i][1] # g[j][1]}}

Tables(kinds) == UNION {TablesOfLen(n, kinds) : n \in 0..MaxHosts}

ALL == <<"a", "l", "l">>

EmptyArgs ==
    [subparser |-> "none", get_subparser |-> "none", list |-> FALSE,
     name |-> None, ipaddr |-> None, groups |-> None, features |-> None,
     label |-> None, disabled |-> FALSE]

HostQueries == {ALL, <<"w">>, W1, <<"W">>, <<>>}
GroupQueries == {GroupA, GroupB, META, <<"A">>, <<>>}

ReadRequests ==
    {[EmptyArgs EXCEPT !.list = TRUE]}
    \cup {[EmptyArgs EXCEPT !.subparser = "get", !.get_subparser = "host",
                            !.name = Some(x)] : x \in HostQueries}
    \cup {[EmptyArgs EXCEPT !.subparser = "get", !.get_subparser = "group",
                            !.list = TRUE]}
    \cup {[EmptyArgs EXCEPT !.subparser = "get", !.get_subparser = "group",
                            !.name = Some(x)] : x \in GroupQueries}

AddRequests ==
    {[EmptyArgs EXCEPT !.subparser = "add", !.name = Some(n), !.ipaddr = i,
                       !.groups = g, !.features = f, !.label = l,
                       !.disabled = d] :
        n \in {W1, D1}, i \in {None, Some(<<>>), Some(IpV4), Some(IpBad)},
        g \in {None, Some(<<>>), Some(<<"a", ",", "b">>)},
        f \in {None, Some(<<"f">>)}, l \in {None, Some(<<"l">>)},
        d \in BOOLEAN}

Requests == ReadRequests \cup AddRequests

-----------------------------------------------------------------------------
(* The process *)

\* A call raises: exception class, the call that raised, len(err.args)
NoError == [exc |-> "none", where |-> "none", nargs |-> 0]
Raise(exc, where, n) == raised' = [exc |-> exc, where |-> where, nargs |-> n]

Init ==
    /\ args \in Requests
    /\ table \in (IF args.subparser = "add" THEN Tables(PlainKinds)
                  ELSE Tables(RowKinds))
    /\ table0 = table
    /\ pending = <<>>
    /\ conn = "none"
    /\ queries = <<>>
    /\ pc = "start"
    /\ host_list = <<>>
    /\ hosts = <<>>
    /\ groups = <<>>
    /\ hostvars = <<>>
    /\ fields = <<>>
    /\ values = <<>>
    /\ stdout = <<>>
    /\ stderr = <<>>
    /\ raised = NoError
    /\ exit_code = NoExit


\* The process ends with the given status.
Exit(code) == pc' = "done" /\ exit_code' = code

\* An exception nobody catches: the interpreter reports it and exits 1.
Uncaught(exc) == stderr' = Append(stderr, exc) /\ Exit(1)

IsAdd == args.subparser = "add"

\* connect_db() returns a connection (first statement of get_hosts/add_host)
ConnectDbOk ==
    /\ pc = "start"
    /\ conn' = "open"
    /\ pc' = IF IsAdd THEN "add_host" ELSE "get_hosts"
    /\ UNCHANGED <<table, table0, pending, queries, args, host_list, hosts,
                   groups, hostvars, fields, values, stdout, stderr, exit_code>>
    /\ UNCHANGED raised

\* pymysql.connect raises: no connection was ever opened
ConnectDbFail ==
    /\ pc = "start"
    /\ Raise("OperationalError", "connect", 2)
    /\ Uncaught("OperationalError")
    /\ UNCHANGED <<table, table0, pending, conn, queries, args, host_list,
                   hosts, groups, hostvars, fields, values, stdout>>

SelectQuery == [op |-> "SELECT", fields |-> <<>>, values |-> <<>>]

\* get_hosts after connecting: read_query returns every row, db.close()
GetHostsOk ==
    /\ pc = "get_hosts"
    /\ queries' = Append(queries, SelectQuery)
    /\ host_list' = table
    /\ conn' = "closed"
    /\ pc' = "process"
    /\ UNCHANGED <<table, table0, pending, args, hosts, groups, hostvars,
                   fields, values, stdout, stderr, exit_code>>
    /\ UNCHANGED raised

\* read_query raises in db.cursor, cur.execute or cur.fetchall; get_hosts and
\* main let the exception through
GetHostsFail ==
    /\ pc = "get_hosts"
    /\ \E stage \in {"cursor", "execute", "fetchall"} :
          /\ queries' = IF stage = "cursor" THEN queries
                        ELSE Append(queries, SelectQuery)
          /\ Raise("Error", stage, 2)
          /\ Uncaught("Error")
    /\ UNCHANGED <<table, table0, pending, conn, args, host_list, hosts,
                   groups, hostvars, fields, values, stdout>>

\* process_hosts(get_hosts()) with every row well formed
ProcessHostsOk ==
    /\ pc = "process"
    /\ \A i \in 1..Len(host_list) : HostValid(host_list[i])
    /\ hosts' = process_hosts(host_list)
    /\ pc' = "build"
    /\ UNCHANGED <<table, table0, pending, conn, queries, args, host_list,
                   groups, hostvars, fields, values, stdout, stderr, exit_code>>
    /\ UNCHANGED raised

\* Variant: a row that does not parse is skipped instead of ending the run.
ProcessHostsFail_skip ==
    /\ pc = "process"
    /\ \E i \in 1..Len(host_list) : ~HostValid(host_list[i])
    /\ hosts' = process_hosts(SelectSeq(host_list, HostValid))
    /\ pc' = "build"
    /\ UNCHANGED <<table, table0, pending, conn, queries, args, host_list,
                   groups, hostvars, fields, values, stdout, stderr, raised,
                   exit_code>>

\* Host.__init__ raises ValueError on some row
ProcessHostsFail ==
    /\ pc = "process"
    /\ \E i \in 1..Len(host_list) : ~HostValid(host_list[i])
    /\ Raise("ValueError", "ip_address", 1)
    /\ Uncaught("ValueError")
    /\ UNCHANGED <<table, table0, pending, conn, queries, args, host_list,
                   hosts, groups, hostvars, fields, values, stdout>>

\* main: groups = build_groups(hosts); hostvars = build_hostvars(hosts)
Build ==
    /\ pc = "build"
    /\ groups' = build_groups(hosts)
    /\ hostvars' = build_hostvars(hosts)
    /\ pc' = "select"
    /\ UNCHANGED <<table, table0, pending, conn, queries, args, host_list,
                   hosts, fields, values, stdout, stderr, exit_code>>
    /\ UNCHANGED raised

\* main: [host.fqdn for host in hosts if host.fqdn.startswith(name)]
host_subset(hs, name) ==
    LET matching == SelectSeq(hs, LAMBDA h : startswith(h.fqdn, name))
    IN  [i \in 1..Len(matching) |-> matching[i].fqdn]

\* main: hostvar_subset[host] = hostvars[host] for host in host_subset
RECURSIVE hostvar_subset(_, _)
hostvar_subset(hv, subset) ==
    IF Len(subset) = 0 THEN <<>>
    ELSE LET front == SubSeq(subset, 1, Len(subset) - 1)
             host == subset[Len(subset)]
         IN  DictSet(hostvar_subset(hv, front), host, DictGet(hv, host))

Printed(item) ==
    /\ stdout' = Append(stdout, item)
    /\ UNCHANGED <<table, table0, pending, conn, queries, args, host_list,
                   hosts, hostvars, fields, values, stderr>>

\* --list: dump(build_ansible_inventory(groups, hostvars))
DumpInventory ==
    /\ pc = "select"
    /\ args.subparser = "none" /\ args.list
    /\ LET built == build_ansible_inventory(groups, hostvars)
       IN  /\ groups' = built.groups
           /\ Printed(dump_dict(built.inventory))
    /\ Exit(0)
    /\ UNCHANGED raised

\* get host all
GetHostAll ==
    /\ pc = "select"
    /\ args.subparser = "get" /\ args.get_subparser = "host"
    /\ Val(args.name) = ALL
    /\ Printed(dump_dict(hostvars))
    /\ Exit(0)
    /\ UNCHANGED groups
    /\ UNCHANGED raised

\* get host NAME
GetHostPrefix ==
    /\ pc = "select"
    /\ args.subparser = "get" /\ args.get_subparser = "host"
    /\ Val(args.name) # ALL
    /\ Printed(dump_dict(hostvar_subset(hostvars,
                                        host_subset(hosts, Val(args.name)))))
    /\ Exit(0)
    /\ UNCHANGED groups
    /\ UNCHANGED raised

\* get group --list
GetGroupList ==
    /\ pc = "select"
    /\ args.subparser = "get" /\ args.get_subparser = "group"
    /\ args.list
    /\ Printed(dump_list(DictKeys(groups)))
    /\ Exit(0)
    /\ UNCHANGED groups
    /\ UNCHANGED raised

\* main: the lookup groups[args.name] does not raise KeyError
group_found(gs, name) == DictHas(gs, name)

\* get group NAME, the group exists
GetGroupByName ==
    /\ pc = "select"
    /\ args.subparser = "get" /\ args.get_subparser = "group"
    /\ ~args.list
    /\ group_found(groups, Val(args.name))
    /\ Printed(dump_list(DictGet(groups, Val(args.name)).hosts))
    /\ Exit(0)
    /\ UNCHANGED groups
    /\ UNCHANGED raised

\* Variant: a missing group is served as an empty member list.
GetGroupNotFound_empty ==
    /\ pc = "select"
    /\ args.subparser = "get" /\ args.get_subparser = "group"
    /\ ~args.list
    /\ ~DictHas(groups, Val(args.name))
    /\ Printed(dump_list(<<>>))
    /\ Exit(0)
    /\ UNCHANGED <<groups, raised>>

\* get group NAME, KeyError: print the report, sys.exit(1)
GetGroupNotFound ==
    /\ pc = "select"
    /\ args.subparser = "get" /\ args.get_subparser = "group"
    /\ ~args.list
    /\ ~group_found(groups, Val(args.name))
    /\ Raise("KeyError", "groups", 1)
    /\ Printed([kind |-> "text", data |-> <<"No group matching", Val(args.name)>>])
    /\ Exit(1)
    /\ UNCHANGED groups


-----------------------------------------------------------------------------
(* The write path *)

\* What socket.gethostbyname can return
ResolvedIps == {IpV4}

\* Shapes of the `args` tuple of an exception raised by the store driver
ErrArgLens == {0, 1, 2}

\* A literal of the statement: "'{}'".format(x) for a str, str(x) otherwise
StrLit(x) == [quoted |-> TRUE, text |-> x]
IntLit(n) == [quoted |-> FALSE, text |-> DecStr(n)]

\* add_host: the column list of the INSERT
InsertFields(a) ==
    <<"fqdn", "ipaddr">>
      \o (IF Truthy(a.groups) THEN <<"groups">> ELSE <<>>)
      \o (IF Truthy(a.features) THEN <<"features">> ELSE <<>>)
      \o (IF Truthy(a.label) THEN <<"label">> ELSE <<>>)
      \o (IF a.disabled THEN <<"enabled">> ELSE <<>>)

\* Variant: -d writes 1 into `enabled`.
InsertValues_enabled(a, ip) ==
    <<StrLit(Val(a.name)), StrLit(ip)>>
      \o (IF Truthy(a.groups) THEN <<StrLit(Val(a.groups))>> ELSE <<>>)
      \o (IF Truthy(a.features) THEN <<StrLit(Val(a.features))>> ELSE <<>>)
      \o (IF Truthy(a.label) THEN <<StrLit(Val(a.label))>> ELSE <<>>)
      \o (IF a.disabled THEN <<IntLit(1)>> ELSE <<>>)

\* add_host: the value list of the INSERT
InsertValues(a, ip) ==
    <<StrLit(Val(a.name)), StrLit(ip)>>
      \o (IF Truthy(a.groups) THEN <<StrLit(Val(a.groups))>> ELSE <<>>)
      \o (IF Truthy(a.features) THEN <<StrLit(Val(a.features))>> ELSE <<>>)
      \o (IF Truthy(a.label) THEN <<StrLit(Val(a.label))>> ELSE <<>>)
      \o (IF a.disabled THEN <<IntLit(0)>> ELSE <<>>)

InsertQuery(fs, vs) == [op |-> "INSERT", fields |-> fs, values |-> vs]

\* The store: column defaults of `server_inventory` (a new host is enabled,
\* the optional columns are NULL, id and upd are filled in by the store)
EnabledDefault == 1

HasField(fs, col) == \E i \in 1..Len(fs) : fs[i] = col
FieldValue(fs, vs, col) == vs[CHOOSE i \in 1..Len(fs) : fs[i] = col]

\* The row the store builds from an INSERT statement
StoreRow(t, q) ==
    [id |-> Len(t) + 1,
     fqdn |-> FieldValue(q.fields, q.values, "fqdn").text,
     ipaddr |-> FieldValue(q.fields, q.values, "ipaddr").text,
     enabled |-> IF HasField(q.fields, "enabled")
                 THEN DecValue(FieldValue(q.fields, q.values, "enabled").text)
                 ELSE EnabledDefault,
     groups |-> IF HasField(q.fields, "groups")
                THEN Some(FieldValue(q.fields, q.values, "groups").text)
                ELSE None,
     features |-> IF HasField(q.fields, "features")
                  THEN Some(FieldValue(q.fields, q.values, "features").text)
                  ELSE None,
     label |-> IF HasField(q.fields, "label")
               THEN Some(FieldValue(q.fields, q.values, "label").text)
               ELSE None,
     upd |-> Stamp]

AddHostQueryBuilt(ip) ==
    /\ fields' = InsertFields(args)
    /\ values' = InsertValues(args, ip)
    /\ pc' = "write"
    /\ UNCHANGED <<table, table0, pending, conn, queries, args, host_list,
                   hosts, groups, hostvars, stdout, stderr, raised, exit_code>>

\* add_host with -i: the statement is built from the given address
AddHostIpGiven ==
    /\ pc = "add_host"
    /\ Truthy(args.ipaddr)
    /\ AddHostQueryBuilt(Val(args.ipaddr))

\* add_host without -i: gethostbyname(name) answers
AddHostResolved ==
    /\ pc = "add_host"
    /\ ~Truthy(args.ipaddr)
    /\ \E ip \in ResolvedIps : AddHostQueryBuilt(ip)

\* Variant: the lookup failure is reported and the add goes on without an
\* address.
AddHostResolveFail_continue ==
    /\ pc = "add_host"
    /\ ~Truthy(args.ipaddr)
    /\ Raise("gaierror", "gethostbyname", 2)
    /\ stdout' = Append(stdout, [kind |-> "error", data |-> <<"gaierror">>])
    /\ fields' = InsertFields(args)
    /\ values' = InsertValues(args, <<>>)
    /\ pc' = "write"
    /\ UNCHANGED <<table, table0, pending, conn, queries, args, host_list,
                   hosts, groups, hostvars, stderr, exit_code>>

\* add_host without -i: gethostbyname raises gaierror; print, close, exit(1)
AddHostResolveFail ==
    /\ pc = "add_host"
    /\ ~Truthy(args.ipaddr)
    /\ Raise("gaierror", "gethostbyname", 2)
    /\ stdout' = Append(stdout, [kind |-> "error", data |-> <<"gaierror">>])
    /\ conn' = "closed"
    /\ Exit(1)
    /\ UNCHANGED <<table, table0, pending, queries, args, host_list, hosts,
                   groups, hostvars, fields, values, stderr>>

\* Variant: the except clause reports and closes but does not exit.
WriteHandler_noexit(stage, n) ==
    /\ Raise("Error", stage, n)
    /\ pending' = <<>>
    /\ stdout' = Append(stdout, [kind |-> "error", data |-> <<stage>>])
    /\ conn' = "closed"
    /\ pc' = "close"
    /\ UNCHANGED <<table, table0, args, host_list, hosts, groups, hostvars,
                   fields, values, stderr, exit_code>>

\* write_query's except clause, for an exception whose args has n entries:
\* print('ERROR:', err.args[1]) raises IndexError itself when n < 2, and
\* then neither close runs.  The store drops what was not committed.
WriteHandler(stage, n) ==
    /\ Raise("Error", stage, n)
    /\ pending' = <<>>
    /\ IF n >= 2
       THEN /\ stdout' = Append(stdout, [kind |-> "error", data |-> <<stage>>])
            /\ conn' = "closed"
            /\ Exit(1)
            /\ UNCHANGED stderr
       ELSE /\ Uncaught("IndexError")
            /\ UNCHANGED <<stdout, conn>>
    /\ UNCHANGED <<table, table0, args, host_list, hosts, groups, hostvars,
                   fields, values>>

\* write_query: cur.execute(query) succeeds
WriteExecuteOk ==
    /\ pc = "write"
    /\ queries' = Append(queries, InsertQuery(fields, values))
    /\ pending' = <<StoreRow(table, InsertQuery(fields, values))>>
    /\ pc' = "commit"
    /\ UNCHANGED <<table, table0, conn, args, host_list, hosts, groups,
                   hostvars, fields, values, stdout, stderr, exit_code>>
    /\ UNCHANGED raised

\* write_query: cur.execute(query) raises
WriteExecuteFail ==
    /\ pc = "write"
    /\ queries' = Append(queries, InsertQuery(fields, values))
    /\ \E n \in ErrArgLens : WriteHandler("execute", n)

\* write_query: db.commit() succeeds, cur.close()
WriteCommitOk ==
    /\ pc = "commit"
    /\ table' = table \o pending
    /\ pending' = <<>>
    /\ pc' = "close"
    /\ UNCHANGED <<table0, conn, queries, args, host_list, hosts, groups,
                   hostvars, fields, values, stdout, stderr, exit_code>>
    /\ UNCHANGED raised

\* write_query: db.commit() raises
WriteCommitFail ==
    /\ pc = "commit"
    /\ \E n \in ErrArgLens : WriteHandler("commit", n)
    /\ UNCHANGED queries

\* add_host: db.close() after write_query returned; main returns
AddHostClose ==
    /\ pc = "close"
    /\ conn' = "closed"
    /\ Exit(0)
    /\ UNCHANGED <<table, table0, pending, queries, args, host_list, hosts,
                   groups, hostvars, fields, values, stdout, stderr>>
    /\ UNCHANGED raised

Next ==
    \/ ConnectDbOk
    \/ ConnectDbFail
    \/ GetHostsOk
    \/ GetHostsFail
    \/ ProcessHostsOk
    \/ ProcessHostsFail
    \/ Build
    \/ DumpInventory
    \/ GetHostAll
    \/ GetHostPrefix
    \/ GetGroupList
    \/ GetGroupByName
    \/ GetGroupNotFound
    \/ AddHostIpGiven
    \/ AddHostResolved
    \/ AddHostResolveFail
    \/ WriteExecuteOk
    \/ WriteExecuteFail
    \/ WriteCommitOk
    \/ WriteCommitFail
    \/ AddHostClose

Spec == Init /\ [][Next]_vars


-----------------------------------------------------------------------------
(* Properties *)

Range(seq) == {seq[i] : i \in 1..Len(seq)}

Terminated == pc = "done"

\* A read-path run that got past get_hosts and process_hosts.
ReadFaults == {"connect", "cursor", "execute", "fetchall", "ip_address"}
Built == ~IsAdd /\ pc \in {"select", "done"} /\ raised.where \notin ReadFaults
Selected == Built /\ pc = "done"

IsList == args.subparser = "none" /\ args.list
IsGetHost == args.subparser = "get" /\ args.get_subparser = "host"
IsGetGroupList ==
    args.subparser = "get" /\ args.get_subparser = "group" /\ args.list
IsGetGroupName ==
    args.subparser = "get" /\ args.get_subparser = "group" /\ ~args.list

InsertCount == Cardinality({i \in 1..Len(queries) : queries[i].op = "INSERT"})

\* p is a leading substring of s
IsPrefix(p, s) == \E n \in 0..Len(s) : SubSeq(s, 1, n) = p

\* fqdns of the hosts of the snapshot that list the group
Listing(name) == {h.fqdn : h \in {x \in Range(hosts) : name \in Range(x.groups)}}

\* C1: on every exit path of the read path and of the write path the
\* connection opened by connect_db is closed before the process terminates:
\* no terminated state has an open connection.
C1_ClosedAtExit == Terminated => conn # "open"

\* C2: add without an IP address whose name lookup fails aborts with a
\* reported resolution error and a non-zero exit, issues no INSERT, and
\* leaves the host table as it was.
C2_ResolveFailNoInsert ==
    (IsAdd /\ raised.exc = "gaierror") =>
        /\ ~Truthy(args.ipaddr)
        /\ Terminated /\ exit_code # 0
        /\ \E i \in 1..Len(stdout) : stdout[i].kind = "error"
        /\ InsertCount = 0
        /\ pending = <<>>
        /\ table = table0

C2_Witness ==
    /\ IsAdd /\ raised.exc = "gaierror" /\ Terminated
    /\ Len(table0) > 0 /\ IsNone(args.ipaddr)

C4_SingleInsertAllOrNothing ==
    IsAdd =>
        /\ InsertCount <= 1
        /\ (raised.where \in {"execute", "commit"} =>
               /\ Terminated /\ exit_code # 0
               /\ InsertCount = 1
               /\ table = table0 /\ pending = <<>>
               /\ IF raised.nargs >= 2
                  THEN Len(stdout) = 1 /\ stdout[1].kind = "error"
                  ELSE stderr = <<"IndexError">>)
        /\ (Terminated /\ raised.exc = "none" =>
               /\ exit_code = 0
               /\ InsertCount = 1
               /\ Len(table) = Len(table0) + 1
               /\ SubSeq(table, 1, Len(table0)) = table0
               /\ table[Len(table)].fqdn = Val(args.name))
        /\ (Terminated /\ exit_code = 0 => raised.exc = "none")

C4_Witness ==
    /\ IsAdd /\ Terminated /\ raised.where = "commit"
    /\ Len(table0) > 0 /\ exit_code = 1

\* C5: get group NAME prints a not-found report and exits non-zero, without
\* an empty mapping or list, when no host lists NAME (exact, case-sensitive);
\* otherwise it prints exactly the fqdns of the hosts listing NAME, exit zero.
C5_GroupByName ==
    (IsGetGroupName /\ Selected) =>
        /\ Len(stdout) = 1
        /\ IF Listing(Val(args.name)) = {}
           THEN exit_code # 0 /\ stdout[1].kind = "text"
           ELSE /\ exit_code = 0
                /\ stdout[1].kind = "lines"
                /\ Range(stdout[1].data) = Listing(Val(args.name))

C5_Witness ==
    /\ IsGetGroupName /\ Selected /\ Val(args.name) = <<"A">>
    /\ Listing(GroupA) # {}
    /\ exit_code = 1 /\ stdout[1].kind = "text"

\* C6: get host X, X not `all`, prints exactly the restriction of hostvars to
\* the fqdns having X as a case-sensitive leading substring (the empty
\* mapping when none has) and exits zero; get host all prints the whole
\* hostvars mapping, one entry per distinct fqdn.
C6_HostByPrefix ==
    (IsGetHost /\ Selected) =>
        /\ exit_code = 0
        /\ Len(stdout) = 1
        /\ stdout[1].kind = "json"
        /\ LET out == stdout[1].data
               want == IF Val(args.name) = ALL
                       THEN {h.fqdn : h \in Range(hosts)}
                       ELSE {h.fqdn : h \in {x \in Range(hosts) :
                                               IsPrefix(Val(args.name), x.fqdn)}}
           IN  /\ Range(DictKeys(out)) = want
               /\ Len(out) = Cardinality(want)
               /\ \A i \in 1..Len(out) : out[i][2] = DictGet(hostvars, out[i][1])
               /\ \A i \in 1..Len(out) :
                     out[i][2] = host_dict(CHOOSE h \in Range(hosts) :
                                              h.fqdn = out[i][1])

C6_Witness ==
    /\ IsGetHost /\ Selected /\ Val(args.name) = <<"w">>
    /\ Len(hosts) = 2 /\ Len(stdout[1].data) = 1
    /\ hosts[1].fqdn = D1

\* C7: after a successful add the stored row is disabled exactly when -d was
\* given (the INSERT names `enabled` only then, otherwise the column default
\* applies); groups, features and label are in the INSERT only when supplied
\* and otherwise take the column default.
C7_OptionalFields ==
    (IsAdd /\ Terminated /\ exit_code = 0) =>
        LET row == table[Len(table)]
            q == queries[1]
        IN  /\ (row.enabled # 0) = ~args.disabled
            /\ HasField(q.fields, "enabled") = args.disabled
            /\ \A col \in {"groups", "features", "label"} :
                  /\ HasField(q.fields, col) =>
                        ~IsNone(args[col]) /\ row[col] = args[col]
                  /\ ~HasField(q.fields, col) => row[col] = None
                  /\ Truthy(args[col]) => HasField(q.fields, col)

C7_Witness ==
    /\ IsAdd /\ Terminated /\ exit_code = 0
    /\ args.disabled /\ IsNone(args.groups) /\ ~IsNone(args.features)
    /\ table[Len(table)].enabled = 0
    /\ Len(table0) > 0

\* C8: a host row whose stored groups is null or the empty string is in no
\* group's host list and makes no group keyed by the empty string, and has
\* exactly one hostvars entry, whose groups is the empty list.
C8_NoGroupsHost ==
    Built =>
        /\ \A i \in 1..Len(host_list) :
              ~Truthy(host_list[i].groups) =>
                 /\ \A j \in 1..Len(groups) :
                       host_list[i].fqdn \notin Range(groups[j][2].hosts)
                 /\ Cardinality({j \in 1..Len(hostvars) :
                                    hostvars[j][1] = host_list[i].fqdn}) = 1
                 /\ DictGet(hostvars, host_list[i].fqdn).groups = <<>>
        /\ DictHas(groups, <<>>) =>
              \E i \in 1..Len(host_list) :
                 /\ Truthy(host_list[i].groups)
                 /\ <<>> \in Range(split(Val(host_list[i].groups), ","))

C8_Witness ==
    /\ Built /\ Len(host_list) = 2
    /\ host_list[1].groups = Some(<<>>)
    /\ host_list[2].groups = Some(GroupA)
    /\ Len(groups) = 1 /\ Len(hostvars) = 2

\* <<group, fqdn>> for every group name of every host, hosts in input order
\* and each host's names left to right
RECURSIVE Memberships(_)
Memberships(hs) ==
    IF Len(hs) = 0 THEN <<>>
    ELSE LET h == hs[Len(hs)]
         IN  Memberships(SubSeq(hs, 1, Len(hs) - 1))
               \o [i \in 1..Len(h.groups) |-> <<h.groups[i], h.fqdn>>]

\* C9: each group's member list is the input hosts that list the group, in
\* input order, once per listing; the groups are keyed in order of first
\* appearance.
C9_GroupOrder ==
    Built =>
        LET ms == Memberships(hosts)
            firsts == SelectSeq([i \in 1..Len(ms) |-> <<i, ms[i][1]>>],
                                LAMBDA p : \A j \in 1..(p[1] - 1) :
                                              ms[j][1] # p[2])
        IN  /\ DictKeys(groups) = [i \in 1..Len(firsts) |-> firsts[i][2]]
            /\ \A j \in 1..Len(groups) :
                  LET mine == SelectSeq(ms, LAMBDA m : m[1] = groups[j][1])
                  IN  groups[j][2].hosts = [i \in 1..Len(mine) |-> mine[i][2]]

C9_Witness ==
    /\ Built /\ Len(groups) = 2
    /\ DictKeys(groups) = <<GroupB, GroupA>>
    /\ DictGet(groups, GroupA).hosts = <<W2, W1, W1>>

\* C10: the --list document has `_meta` equal to {hostvars: hostvars} and
\* every other key equal to its build_groups entry; a group named `_meta` is
\* overwritten in the document, still shows in get group --list and in
\* get group _meta, and the groups mapping itself is left as built.
C10_MetaKey ==
    /\ (IsList /\ Selected) =>
          /\ exit_code = 0 /\ Len(stdout) = 1 /\ stdout[1].kind = "json"
          /\ groups = build_groups(hosts)
          /\ LET doc == stdout[1].data
             IN  /\ Cardinality({i \in 1..Len(doc) : doc[i][1] = META}) = 1
                 /\ \A i \in 1..Len(doc) :
                       IF doc[i][1] = META
                       THEN /\ DOMAIN doc[i][2] = {"hostvars"}
                            /\ doc[i][2].hostvars = hostvars
                       ELSE /\ DictHas(groups, doc[i][1])
                            /\ doc[i][2] = DictGet(groups, doc[i][1])
                 /\ \A j \in 1..Len(groups) :
                       /\ DictHas(doc, groups[j][1])
                       /\ DOMAIN groups[j][2] = {"hosts"}
    /\ (IsGetGroupList /\ Selected /\ Listing(META) # {}) =>
          /\ exit_code = 0 /\ stdout[1].kind = "lines"
          /\ META \in Range(stdout[1].data)
    /\ (IsGetGroupName /\ Selected /\ Val(args.name) = META
          /\ Listing(META) # {}) =>
          /\ exit_code = 0 /\ stdout[1].kind = "lines"
          /\ Range(stdout[1].data) = Range(DictGet(build_groups(hosts), META).hosts)

C10_Witness ==
    /\ IsList /\ Selected /\ Listing(META) # {}
    /\ Len(groups) = 2 /\ Len(stdout[1].data) = 2
    /\ DictHas(groups, META)

=============================================================================
